---- MODULE Spec2Model ----
(***************************************************************************)
(* kv-squirrel: one-shot migration of a Redis cluster keyspace.           *)
(* exportKeys scans every master of the source cluster, captures each     *)
(* unique key as a KeyData snapshot and writes the list to a JSON file;   *)
(* importKeys reads such a file and restores every snapshot on the target.*)
(***************************************************************************)
EXTENDS Integers, Sequences, FiniteSets, TLC

\* ------------------------------------------------------------------ bounds
\* Number of key names of the keyspaces.
NumKeys == 2
\* How many times one master's SCAN may report a key beyond the first report
\* of each of its own keys (cursor resizing, slots being migrated).
MaxDup == 1
\* A positive remaining time-to-live, in seconds.
SomeTTL == 100

\* ------------------------------------------------------------ key universe
Keys == 1 .. NumKeys

Masters == {"m1", "m2"}

\* Key k carries the name "user:k" when k is odd and "order:k" when even.
Prefix(k) == IF k % 2 = 1 THEN "user" ELSE "order"

\* The cluster's slot assignment: the master that owns key k.
Owner(k) == IF (k \div 2) % 2 = 0 THEN "m1" ELSE "m2"

\* config.Pattern, a glob handed to SCAN ... MATCH.
Patterns == {"*", "user:*"}

Match(p, k) == (p = "*") \/ (p = "user:*" /\ Prefix(k) = "user")

\* ------------------------------------------------------------ Redis values
\* A Redis value is a tagged union; the tag is the entry's type. Every field
\* but the one the type selects is empty.
\*   str : the scalar of a string       list: the element sequence of a list
\*   set : the members of a set         hash: <<field, value>> pairs
\*   zset: <<member, score>> pairs
EmptyVal == [str |-> "", list |-> <<>>, set |-> {}, hash |-> {}, zset |-> {}]

StrVal(s) == [EmptyVal EXCEPT !.str = s]

ListVal(q) == [EmptyVal EXCEPT !.list = q]

SetVal(S) == [EmptyVal EXCEPT !.set = S]

HashVal(h) == [EmptyVal EXCEPT !.hash = h]

ZSetVal(z) == [EmptyVal EXCEPT !.zset = z]

\* A byte string that is not valid UTF-8, and what encoding/json writes for it.
BinAtom == "xFF"

ReplAtom == "uFFFD"

\* TTL replies of the client: -1 for a key without expiration, -2 for a key
\* that does not exist, else the remaining seconds.
NoExpiryReply == 0 - 1

NoKeyReply == 0 - 2

\* A key that does not exist.
Absent == [type |-> "none", ttl |-> NoKeyReply, val |-> EmptyVal]

\* The entries a source key is drawn from. "stream" is a Redis type outside
\* the five the tool decomposes.
SrcEntries ==
    { [type |-> "string", ttl |-> NoExpiryReply, val |-> StrVal("a")],
      [type |-> "string", ttl |-> SomeTTL, val |-> StrVal(BinAtom)],
      [type |-> "list", ttl |-> SomeTTL, val |-> ListVal(<<"a", "b", "b">>)],
      [type |-> "set", ttl |-> SomeTTL, val |-> SetVal({"a", "b"})],
      [type |-> "hash", ttl |-> NoExpiryReply,
       val |-> HashVal({<<"f1", "a">>, <<"f2", "b">>})],
      [type |-> "zset", ttl |-> SomeTTL,
       val |-> ZSetVal({<<"a", 2>>, <<"b", 1>>})],
      [type |-> "stream", ttl |-> NoExpiryReply, val |-> StrVal("entries")] }

SupportedTypes == {"string", "list", "set", "zset", "hash"}

\* ------------------------------------------------------- Go values (KeyData)
\* KeyData.Value is an interface{}: gk names the dynamic type it holds.
\*   "nil" | "string" | "[]string" | "[]Z" | "map[string]string"     (export)
\*   "nil" | "string" | "[]interface{}" | "map[string]interface{}"  (decoded)
\* Array elements are records [ek, m, sc, scTy]: ek is the element's dynamic
\* type ("string", "Z", "map"), m its string or Member, sc its Score and scTy
\* the dynamic type of the Score entry ("float64", "string", "missing").
NilValue == [gk |-> "nil", str |-> "", arr |-> <<>>, obj |-> {}]

GoString(s) == [NilValue EXCEPT !.gk = "string", !.str = s]

StrElem(s) == [ek |-> "string", m |-> s, sc |-> 0, scTy |-> "missing"]

ZElem(m, sc) == [ek |-> "Z", m |-> m, sc |-> sc, scTy |-> "float64"]

\* KeyData.Dump: the DUMP payload, the serialized value with its type.
NoDump == [type |-> "", val |-> EmptyVal]


\* The fields of a snapshot before any read has filled them (line 225).
NewKeyData(key) ==
    [Key |-> key, Type |-> "", TTL |-> 0, Value |-> NilValue, Dump |-> NoDump]

\* ---------------------------------------------------------------- helpers
Range(f) == {f[x] : x \in DOMAIN f}

\* Lexicographic rank of a member, for ZRANGE's order among equal scores.
Rank(m) == CASE m = "a" -> 1 [] m = "b" -> 2 [] OTHER -> 3

\* Every sequence that lists each element of the set S exactly once.
SeqsOf(S) ==
    {q \in [1 .. Cardinality(S) -> S] : \A x \in S : \E j \in DOMAIN q : q[j] = x}

RECURSIVE SumOver(_, _)
SumOver(f, S) ==
    IF S = {} THEN 0
    ELSE LET x == CHOOSE y \in S : TRUE IN f[x] + SumOver(f, S \ {x})

\* ------------------------------------------------- source cluster commands
\* TTL key
TTLCmd(e) == e.ttl

\* TYPE key
TypeCmd(e) == e.type

\* DUMP key: redis.Nil for a key that does not exist.
DumpCmd(e) ==
    IF e.type = "none"
    THEN [err |-> "redis: nil", dump |-> NoDump]
    ELSE [err |-> "", dump |-> [type |-> e.type, val |-> e.val]]

ZFirst(z) ==
    CHOOSE p \in z : \A q \in z :
        p[2] < q[2] \/ (p[2] = q[2] /\ Rank(p[1]) <= Rank(q[1]))

\* ZRANGE key 0 -1 WITHSCORES: ascending by score, then by member.
RECURSIVE ZRangeWithScores(_)
ZRangeWithScores(z) ==
    IF z = {} THEN <<>>
    ELSE LET p == ZFirst(z) IN <<ZElem(p[1], p[2])>> \o ZRangeWithScores(z \ {p})

\* A typed read against a key of another type fails (WRONGTYPE); against a
\* key that does not exist GET fails with redis.Nil and the others reply empty.
WrongType(e, keyType) == e.type # "none" /\ e.type # keyType

\* exportValueByType: the set of (value, error) results the reads can give.
\* SMEMBERS replies in an unspecified order.
ExportValueByType(e, keyType) ==
    IF keyType \notin SupportedTypes
    THEN {[err |-> "unsupported type", value |-> NilValue]}
    ELSE IF WrongType(e, keyType)
    THEN {[err |-> "WRONGTYPE", value |-> NilValue]}
    ELSE CASE keyType = "string" ->
                IF e.type = "none"
                THEN {[err |-> "redis: nil", value |-> NilValue]}
                ELSE {[err |-> "", value |-> GoString(e.val.str)]}
           [] keyType = "list" ->
                {[err |-> "",
                  value |-> [NilValue EXCEPT !.gk = "[]string",
                      !.arr = [j \in DOMAIN e.val.list |-> StrElem(e.val.list[j])]]]}
           [] keyType = "set" ->
                {[err |-> "",
                  value |-> [NilValue EXCEPT !.gk = "[]string",
                      !.arr = [j \in DOMAIN q |-> StrElem(q[j])]]] :
                  q \in SeqsOf(e.val.set)}
           [] keyType = "zset" ->
                {[err |-> "",
                  value |-> [NilValue EXCEPT !.gk = "[]Z",
                      !.arr = ZRangeWithScores(e.val.zset)]]}
           [] keyType = "hash" ->
                {[err |-> "",
                  value |-> [NilValue EXCEPT !.gk = "map[string]string",
                      !.obj = e.val.hash]]}

\* ------------------------------------------------------------ JSON (file)
\* encoding/json writes a Go string as a JSON string in which every invalid
\* UTF-8 sequence is replaced by U+FFFD.
JsonString(s) == IF s = BinAtom THEN ReplAtom ELSE s

JsonNull == [jk |-> "null", str |-> "", arr |-> <<>>, obj |-> {}]

\* json.Marshal of KeyData.Value: []string becomes an array of strings, []Z an
\* array of objects {"Score": number, "Member": string}, a map an object.
MarshalValue(v) ==
    CASE v.gk = "nil" -> JsonNull
      [] v.gk = "string" ->
           [JsonNull EXCEPT !.jk = "string", !.str = JsonString(v.str)]
      [] v.gk \in {"[]string", "[]interface{}"} ->
           [JsonNull EXCEPT !.jk = "array",
               !.arr = [j \in DOMAIN v.arr |->
                   [v.arr[j] EXCEPT !.m = JsonString(v.arr[j].m)]]]
      [] v.gk = "[]Z" ->
           [JsonNull EXCEPT !.jk = "array",
               !.arr = [j \in DOMAIN v.arr |->
                   [ek |-> "object", m |-> JsonString(v.arr[j].m),
                    sc |-> v.arr[j].sc, scTy |-> "number"]]]
      [] v.gk \in {"map[string]string", "map[string]interface{}"} ->
           [JsonNull EXCEPT !.jk = "object",
               !.obj = {<<JsonString(p[1]), JsonString(p[2])>> : p \in v.obj}]

\* json.Unmarshal into an interface{}: a JSON array decodes to []interface{},
\* an object to map[string]interface{}, a number to float64.
UnmarshalElem(x) ==
    IF x.ek = "object"
    THEN [ek |-> "map", m |-> x.m, sc |-> x.sc,
          scTy |-> IF x.scTy = "number" THEN "float64" ELSE x.scTy]
    ELSE x

UnmarshalValue(j) ==
    CASE j.jk = "null" -> NilValue
      [] j.jk = "string" -> GoString(j.str)
      [] j.jk = "array" ->
           [NilValue EXCEPT !.gk = "[]interface{}",
               !.arr = [n \in DOMAIN j.arr |-> UnmarshalElem(j.arr[n])]]
      [] j.jk = "object" ->
           [NilValue EXCEPT !.gk = "map[string]interface{}", !.obj = j.obj]

\* A []byte field is written as a base64 string (null when nil) and read back.
Base64Encode(d) == [b64 |-> d]

Base64Decode(x) == x.b64

\* One KeyData record as written by encoder.Encode (line 216).
MarshalKeyData(kd) ==
    [key |-> kd.Key, type |-> JsonString(kd.Type), ttl |-> kd.TTL,
     value |-> MarshalValue(kd.Value), dump |-> Base64Encode(kd.Dump)]

\* One KeyData record as read by Decode (line 297).
UnmarshalKeyData(j) ==
    [Key |-> j.key, Type |-> j.type, TTL |-> j.ttl,
     Value |-> UnmarshalValue(j.value), Dump |-> Base64Decode(j.dump)]

NoFile == [state |-> "missing", entries |-> <<>>]

JsonFile(list) ==
    [state |-> "json", entries |-> [n \in DOMAIN list |-> MarshalKeyData(list[n])]]


\* ================================================================== state
VARIABLES
    \* configuration and environment
    useDump,        \* config.UseRDBDump
    pattern,        \* config.Pattern
    inputFile,      \* config.InputFile: the name given with -input, "" if none
    src,            \* the source cluster's keyspace: key -> entry
    tgt,            \* the target cluster's keyspace: key -> entry
    file,           \* the export file (config.OutputFile / config.InputFile)
    \* the run
    phase,          \* where the run stands
    result,         \* what exportKeys / importKeys returned
    \* discovery (exportKeys, lines 132-169)
    scanPc,         \* per master: "scanning", "done", "failed"
    seen,           \* per master: its own keys its scan has reported
    extra,          \* per master: repeated or foreign reports so far
    nodeKeyCount,   \* per master: the callback's local counter
    allKeys,        \* the sync.Map: key -> number of entries stored under it
    errCh,          \* ForEachMaster's one-slot error channel
    addedCount,     \* history: per key, LoadOrStore calls that reported "new"
    repeated,       \* history: some scan yielded a key the map already held
    \* the capture and restore loops
    keys,           \* the slice built from allKeys.Range
    i,              \* loop index (1-based) into keys or keyDataList
    step,           \* which read of exportKey comes next
    keyData,        \* the snapshot exportKey is filling
    keyDataList,    \* snapshots captured (export) or decoded (import)
    exported,
    imported,
    failed,
    captureCalls,   \* history: per key, calls of exportKey
    failedKeys,     \* history: keys (export) or file positions (import) that failed
    last,           \* history: the latest importKey call and what it did
    pass,           \* how many times the tool was started
    first           \* history: how the first import run ended

confVars == <<useDump, pattern, src, inputFile>>

scanVars == <<scanPc, seen, extra, nodeKeyCount, allKeys, errCh, addedCount,
              repeated>>

loopVars == <<keys, i, step, keyData, keyDataList, exported, failed,
              captureCalls, failedKeys>>

importVars == <<tgt, imported, last, pass, first>>

vars == <<confVars, scanVars, loopVars, importVars, file, phase, result>>

Running == [status |-> "running", err |-> "", node |-> ""]

Success == [status |-> "ok", err |-> "", node |-> ""]

Failure(err, node) == [status |-> "error", err |-> err, node |-> node]

NoLast == [idx |-> 0, err |-> "", panic |-> FALSE, before |-> Absent, cmds |-> <<>>]

NoFirst == [tgt |-> [k \in Keys |-> Absent], failed |-> 0]

\* The default of the -input flag (line 76), and the name of an export file
\* (the default of -output, line 75) given with -input.
NoInput == ""

DumpFileName == "redis-dump.json"

\* The values every run starts from.
RunInit ==
    /\ result = Running
    /\ scanPc = [m \in Masters |-> "scanning"]
    /\ seen = [m \in Masters |-> {}]
    /\ extra = [m \in Masters |-> 0]
    /\ nodeKeyCount = [m \in Masters |-> 0]
    /\ allKeys = [k \in Keys |-> 0]
    /\ errCh = ""
    /\ addedCount = [k \in Keys |-> 0]
    /\ repeated = FALSE
    /\ keys = <<>>
    /\ i = 1
    /\ step = "ttl"
    /\ keyData = NewKeyData(0)
    /\ keyDataList = <<>>
    /\ exported = 0
    /\ imported = 0
    /\ failed = 0
    /\ captureCalls = [k \in Keys |-> 0]
    /\ failedKeys = {}
    /\ last = NoLast

\* An export run: main with config.InputFile = "" (lines 43-49).
Init ==
    /\ useDump \in BOOLEAN
    /\ pattern \in Patterns
    /\ inputFile = NoInput
    /\ src \in [Keys -> SrcEntries \cup {Absent}]
    /\ tgt = [k \in Keys |-> Absent]
    /\ file = NoFile
    /\ phase = "connect"
    /\ pass = 1
    /\ first = NoFirst
    /\ RunInit

\* ------------------------------------------------------------- discovery
\* sourceClient.Ping (lines 123-125).
Connect ==
    /\ phase = "connect"
    /\ \E ok \in BOOLEAN :
         IF ok
         THEN phase' = "scan" /\ result' = result
         ELSE phase' = "done" /\ result' = Failure("failed to connect", "")
    /\ UNCHANGED <<confVars, scanVars, loopVars, importVars, file>>

Exists(k) == src[k].type # "none"

\* The keys of master m's slots that SCAN ... MATCH pattern has yet to report.
Pending(m) ==
    {k \in Keys : Owner(k) = m /\ Exists(k) /\ Match(pattern, k)} \ seen[m]

\* What the next iter.Next of master m's scan may yield.
Reportable(m) ==
    Pending(m) \cup
    (IF extra[m] < MaxDup THEN {k \in Keys : Exists(k) /\ Match(pattern, k)} ELSE {})

\* The mutation of LoadOrStore that stores without looking.
LoadOrStoreBlind(map, k) ==
    [loaded |-> FALSE, map |-> [map EXCEPT ![k] = map[k] + 1]]

\* sync.Map.LoadOrStore(key, true): atomic insert-if-absent (line 146).
LoadOrStore(map, k) ==
    IF map[k] > 0
    THEN [loaded |-> TRUE, map |-> map]
    ELSE [loaded |-> FALSE, map |-> [map EXCEPT ![k] = 1]]

\* One iteration of master m's scan loop (lines 142-149).
ScanNext(m) ==
    /\ phase = "scan"
    /\ scanPc[m] = "scanning"
    /\ \E k \in Reportable(m) :
         LET r == LoadOrStore(allKeys, k) IN
         /\ allKeys' = r.map
         /\ repeated' = (repeated \/ allKeys[k] > 0)
         /\ IF k \in Pending(m)
            THEN seen' = [seen EXCEPT ![m] = seen[m] \cup {k}] /\ extra' = extra
            ELSE extra' = [extra EXCEPT ![m] = extra[m] + 1] /\ seen' = seen
         /\ IF r.loaded
            THEN UNCHANGED <<nodeKeyCount, addedCount>>
            ELSE /\ nodeKeyCount' = [nodeKeyCount EXCEPT ![m] = nodeKeyCount[m] + 1]
                 /\ addedCount' = [addedCount EXCEPT ![k] = addedCount[k] + 1]
    /\ UNCHANGED <<confVars, loopVars, importVars, file, phase, result,
                   scanPc, errCh>>

\* The cursor of master m is exhausted and iter.Err() is nil (lines 151-156).
ScanEnd(m) ==
    /\ phase = "scan"
    /\ scanPc[m] = "scanning"
    /\ Pending(m) = {}
    /\ scanPc' = [scanPc EXCEPT ![m] = "done"]
    /\ UNCHANGED <<confVars, loopVars, importVars, file, phase, result,
                   seen, extra, nodeKeyCount, allKeys, errCh, addedCount, repeated>>

\* iter.Err() is not nil: the callback returns "scan error on <m>" (line 152);
\* ForEachMaster keeps the first error handed to its one-slot channel.
ScanFail(m) ==
    /\ phase = "scan"
    /\ scanPc[m] = "scanning"
    /\ scanPc' = [scanPc EXCEPT ![m] = "failed"]
    /\ errCh' = IF errCh = "" THEN m ELSE errCh
    /\ UNCHANGED <<confVars, loopVars, importVars, file, phase, result,
                   seen, extra, nodeKeyCount, allKeys, addedCount, repeated>>

\* The mutation in which ForEachMaster returns with the first callback.
SomeScanReturned == \E m \in Masters : scanPc[m] # "scanning"

\* ForEachMaster returns once every callback has returned.
AllScansReturned == \A m \in Masters : scanPc[m] # "scanning"

\* The callbacks' iterators and local counters are gone once they returned.
CallbacksGone ==
    /\ seen' = [m \in Masters |-> {}]
    /\ extra' = [m \in Masters |-> 0]
    /\ nodeKeyCount' = [m \in Masters |-> 0]

\* The mutation that drops the error of ForEachMaster.
ScanErrorIgnored(ch) == FALSE

\* err != nil (line 159).
ScanError(ch) == ch # ""

\* return fmt.Errorf("failed to scan cluster: %w", err) (lines 159-161).
ScanAbort ==
    /\ phase = "scan"
    /\ AllScansReturned
    /\ ScanError(errCh)
    /\ phase' = "done"
    /\ result' = Failure("failed to scan cluster: scan error", errCh)
    /\ CallbacksGone
    /\ UNCHANGED <<confVars, loopVars, importVars, file,
                   scanPc, allKeys, errCh, addedCount, repeated>>

\* The orders in which allKeys.Range may visit the entries of the map.
RangeOrders(map) ==
    {q \in [1 .. SumOver(map, Keys) -> Keys] :
        \A k \in Keys : Cardinality({j \in DOMAIN q : q[j] = k}) = map[k]}

\* The map becomes the slice keys (lines 163-169); no key: return nil
\* (lines 173-176); else the export loop starts.
CollectKeys ==
    /\ phase = "scan"
    /\ AllScansReturned
    /\ ~ScanError(errCh)
    /\ \E q \in RangeOrders(allKeys) :
         /\ keys' = q
         /\ IF Len(q) = 0
            THEN phase' = "done" /\ result' = Success
            ELSE phase' = "export" /\ result' = result
    /\ CallbacksGone
    /\ UNCHANGED <<confVars, importVars, file, scanPc, allKeys, errCh, addedCount,
                   repeated, i, step, keyData, keyDataList, exported, failed,
                   captureCalls, failedKeys>>


\* --------------------------------------------------------------- capture
\* The loop moves to the next key, or past the last one to the file write.
Advance ==
    /\ i' = i + 1
    /\ step' = "ttl"
    /\ phase' = IF i = Len(keys) THEN "write" ELSE "export"

\* The mutation that forgets to count a failed capture.
FailedNotCounted(f) == f

\* failed++ (line 193).
FailedAfterError(f) == f + 1

\* exportKey returned an error: log, failed++, continue (lines 191-195).
CaptureFailed(key) ==
    /\ failed' = FailedAfterError(failed)
    /\ failedKeys' = failedKeys \cup {key}
    /\ Advance
    /\ UNCHANGED <<keyData, keyDataList, exported>>

\* exportKey, first read: client.TTL; keyData.TTL = ttl (lines 225-234).
ExportKeyTTL ==
    /\ phase = "export"
    /\ step = "ttl"
    /\ LET key == keys[i] IN
       /\ captureCalls' = [captureCalls EXCEPT ![key] = captureCalls[key] + 1]
       /\ \E ok \in BOOLEAN :
            IF ok
            THEN /\ keyData' = [NewKeyData(key) EXCEPT !.TTL = TTLCmd(src[key])]
                 /\ step' = "type"
                 /\ UNCHANGED <<i, phase, keyDataList, exported, failed, failedKeys>>
            ELSE CaptureFailed(key)
    /\ UNCHANGED <<confVars, scanVars, importVars, file, result, keys>>

\* exportKey, second read: client.Type; keyData.Type = keyType (lines 237-241).
ExportKeyType ==
    /\ phase = "export"
    /\ step = "type"
    /\ \E ok \in BOOLEAN :
         IF ok
         THEN /\ keyData' = [keyData EXCEPT !.Type = TypeCmd(src[keys[i]])]
              /\ step' = "value"
              /\ UNCHANGED <<i, phase, keyDataList, exported, failed, failedKeys>>
         ELSE CaptureFailed(keys[i])
    /\ UNCHANGED <<confVars, scanVars, importVars, file, result, keys, captureCalls>>

\* The mutation that dumps only the aggregate types and decomposes strings.
DumpComplexOnly(ud, keyType) == ud /\ keyType # "string"

\* if useDump (line 243).
TakesDump(ud, keyType) == ud

\* The value read of exportKey (lines 243-257): every (error, snapshot) pair it
\* can end with.
ValueReads(e, kd, ud) ==
    IF TakesDump(ud, kd.Type)
    THEN LET r == DumpCmd(e) IN
         {[err |-> r.err, kd |-> IF r.err = "" THEN [kd EXCEPT !.Dump = r.dump] ELSE kd]}
    ELSE {[err |-> r.err, kd |-> IF r.err = "" THEN [kd EXCEPT !.Value = r.value] ELSE kd] :
            r \in ExportValueByType(e, kd.Type)}

\* exportKey, third read, and the loop's bookkeeping for its result
\* (lines 190-198, 243-259).
ExportKeyValue ==
    /\ phase = "export"
    /\ step = "value"
    /\ \E ok \in BOOLEAN :
         IF ok
         THEN \E r \in ValueReads(src[keys[i]], keyData, useDump) :
                IF r.err = ""
                THEN /\ keyData' = r.kd
                     /\ keyDataList' = Append(keyDataList, r.kd)
                     /\ exported' = exported + 1
                     /\ Advance
                     /\ UNCHANGED <<failed, failedKeys>>
                ELSE CaptureFailed(keys[i])
         ELSE CaptureFailed(keys[i])
    /\ UNCHANGED <<confVars, scanVars, importVars, file, result, keys, captureCalls>>

\* os.Create and encoder.Encode(keyDataList) (lines 207-220).
WriteFile ==
    /\ phase = "write"
    /\ phase' = "done"
    /\ \E ok \in BOOLEAN :
         IF ok
         THEN file' = JsonFile(keyDataList) /\ result' = Success
         ELSE file' = file /\ result' = Failure("failed to create output file", "")
    /\ UNCHANGED <<confVars, scanVars, loopVars, importVars>>

\* ------------------------------------------------ target cluster commands
\* A request sent to the target: its command, its expiration argument (0 when
\* it carries none) and whether it was carried out.
Req(cmd, ttl, ok) == [cmd |-> cmd, ttl |-> ttl, ok |-> ok]

\* The expiration a key keeps or gets when a write creates or extends it.
KeptTTL(e) == IF e.type = "none" THEN NoExpiryReply ELSE e.ttl

\* RESTORE key ttl payload REPLACE: the key is replaced whatever it held;
\* ttl 0 means no expiration.
RestoreReplaceCmd(e, ttl, dump) ==
    [type |-> dump.type, val |-> dump.val,
     ttl |-> IF ttl = 0 THEN NoExpiryReply ELSE ttl]

\* The client's SET: EX ttl for a positive expiration, KEEPTTL for the
\* expiration -1 (redis.KeepTTL), else a plain SET that clears the expiration.
SetCmd(e, val, ttl) ==
    [type |-> "string", val |-> StrVal(val),
     ttl |-> IF ttl > 0 THEN ttl
             ELSE IF ttl = NoExpiryReply THEN KeptTTL(e)
             ELSE NoExpiryReply]

\* The mutation that pushes at the head of the list (LPUSH).
LPushCmd(e, v) ==
    [type |-> "list", val |-> ListVal(<<v>> \o e.val.list), ttl |-> KeptTTL(e)]

\* RPUSH key v on a list or a missing key.
RPushCmd(e, v) ==
    [type |-> "list", val |-> ListVal(Append(e.val.list, v)), ttl |-> KeptTTL(e)]

\* SADD key v on a set or a missing key.
SAddCmd(e, v) ==
    [type |-> "set", val |-> SetVal(e.val.set \cup {v}), ttl |-> KeptTTL(e)]

\* HSET key field value ... on a hash or a missing key.
HSetCmd(e, obj) ==
    [type |-> "hash", ttl |-> KeptTTL(e),
     val |-> HashVal({p \in e.val.hash : \A q \in obj : q[1] # p[1]} \cup obj)]

\* The <<member, score>> pairs a ZADD of the members leaves: the last score
\* given for a member wins.
ZPairs(members) ==
    {<<members[j].m, members[j].sc>> : j \in
        {n \in DOMAIN members :
            \A n2 \in DOMAIN members : members[n2].m = members[n].m => n2 <= n}}

\* ZADD key score member ... on a sorted set or a missing key.
ZAddCmd(e, members) ==
    [type |-> "zset", ttl |-> KeptTTL(e),
     val |-> ZSetVal({p \in e.val.zset : \A q \in ZPairs(members) : q[1] # p[1]}
                     \cup ZPairs(members))]

\* EXPIRE key ttl: no effect on a missing key.
ExpireCmd(e, ttl) == IF e.type = "none" THEN e ELSE [e EXCEPT !.ttl = ttl]

\* A write of type t is refused (WRONGTYPE) on a key of another type.
Accepts(e, t) == e.type \in {"none", t}

\* --------------------------------------------------------------- restore
\* Every result of one importKey call is a record: the error returned ("" for
\* nil), whether the call panicked, the target key's entry afterwards and the
\* requests sent.
Outcome(err, panic, e, cmds) ==
    [err |-> err, panic |-> panic, entry |-> e, cmds |-> cmds]

\* if keyData.TTL > 0 { client.Expire(...) }: the result is not looked at
\* (lines 396-398, 410-412, 422-424, 442-444).
ExpireStep(e, ttl, cmds) ==
    IF ttl > 0
    THEN {Outcome("", FALSE, ExpireCmd(e, ttl), Append(cmds, Req("EXPIRE", ttl, TRUE))),
          Outcome("", FALSE, e, Append(cmds, Req("EXPIRE", ttl, FALSE)))}
    ELSE {Outcome("", FALSE, e, cmds)}

\* The target key after the first n elements were written one by one.
RECURSIVE AfterWrites(_, _, _, _)
AfterWrites(e, vals, n, t) ==
    IF n = 0 THEN e
    ELSE LET b == AfterWrites(e, vals, n - 1, t) IN
         IF t = "list" THEN RPushCmd(b, vals[n].m) ELSE SAddCmd(b, vals[n].m)

\* How many of the element writes can be carried out: none on a key of
\* another type, and none from the first element the client cannot marshal.
Writable(e, vals, t) ==
    IF ~Accepts(e, t) THEN 0
    ELSE IF \A j \in DOMAIN vals : vals[j].ek = "string" THEN Len(vals)
    ELSE (CHOOSE j \in DOMAIN vals :
            vals[j].ek # "string" /\ \A j2 \in 1 .. j - 1 : vals[j2].ek = "string") - 1

\* The mutation in which a failed element write undoes the elements written
\* before it.
ElementWritesUndone(e, kd, t, cmd) ==
    LET vals == kd.Value.arr
        w == Writable(e, vals, t)
        sent(n) == [j \in 1 .. n |-> Req(cmd, 0, TRUE)]
    IN  IF kd.Value.gk # "[]interface{}"
        THEN {Outcome("invalid value", FALSE, e, <<>>)}
        ELSE {Outcome("write failed", FALSE, e,
                      Append(sent(n), Req(cmd, 0, FALSE))) :
                 n \in {n2 \in 0 .. w : n2 < Len(vals)}}
             \cup
             (IF w = Len(vals)
              THEN ExpireStep(AfterWrites(e, vals, w, t), kd.TTL, sent(w))
              ELSE {})

\* The list and set cases of importValueByType (lines 386-412): one request
\* per element, the first error is returned; then the expiration.
ElementWrites(e, kd, t, cmd) ==
    LET vals == kd.Value.arr
        w == Writable(e, vals, t)
        sent(n) == [j \in 1 .. n |-> Req(cmd, 0, TRUE)]
    IN  IF kd.Value.gk # "[]interface{}"
        THEN {Outcome("invalid value", FALSE, e, <<>>)}
        ELSE {Outcome("write failed", FALSE, AfterWrites(e, vals, n, t),
                      Append(sent(n), Req(cmd, 0, FALSE))) :
                 n \in {n2 \in 0 .. w : n2 < Len(vals)}}
             \cup
             (IF w = Len(vals)
              THEN ExpireStep(AfterWrites(e, vals, w, t), kd.TTL, sent(w))
              ELSE {})

\* One request that writes the whole value, then the expiration (the hash and
\* zset cases, lines 419-424 and 439-444). An empty argument list is an error.
BulkWrite(e, kd, t, cmd, empty, after) ==
    {Outcome("write failed", FALSE, e, <<Req(cmd, 0, FALSE)>>)}
    \cup
    (IF Accepts(e, t) /\ ~empty
     THEN ExpireStep(after, kd.TTL, <<Req(cmd, 0, TRUE)>>)
     ELSE {})

\* v.(map[string]interface{}) and zval["Score"].(float64) (lines 433-435):
\* assertions without the ok form, which panic when they do not hold.
ZElemPanics(x) == x.ek # "map" \/ x.scTy # "float64"

\* importValueByType (lines 373-451).
ImportValueByType(e, kd) ==
    CASE kd.Type = "string" ->
           IF kd.Value.gk # "string"
           THEN {Outcome("invalid string value", FALSE, e, <<>>)}
           ELSE {Outcome("", FALSE, SetCmd(e, kd.Value.str, kd.TTL),
                         <<Req("SET", kd.TTL, TRUE)>>),
                 Outcome("write failed", FALSE, e, <<Req("SET", kd.TTL, FALSE)>>)}
      [] kd.Type = "list" -> ElementWrites(e, kd, "list", "RPUSH")
      [] kd.Type = "set" -> ElementWrites(e, kd, "set", "SADD")
      [] kd.Type = "hash" ->
           IF kd.Value.gk # "map[string]interface{}"
           THEN {Outcome("invalid hash value", FALSE, e, <<>>)}
           ELSE BulkWrite(e, kd, "hash", "HSET", kd.Value.obj = {},
                          HSetCmd(e, kd.Value.obj))
      [] kd.Type = "zset" ->
           IF kd.Value.gk # "[]interface{}"
           THEN {Outcome("invalid zset value", FALSE, e, <<>>)}
           ELSE IF \E j \in DOMAIN kd.Value.arr : ZElemPanics(kd.Value.arr[j])
           THEN {Outcome("panic: interface conversion", TRUE, e, <<>>)}
           ELSE BulkWrite(e, kd, "zset", "ZADD", kd.Value.arr = <<>>,
                          ZAddCmd(e, kd.Value.arr))
      [] OTHER -> {Outcome("unsupported type", FALSE, e, <<>>)}

\* ttl := keyData.TTL; if ttl < 0 { ttl = 0 } (lines 360-363).
RestoreTTL(ttl) == IF ttl < 0 THEN 0 ELSE ttl

\* The mutation that replays a payload whatever the strategy flag says.
RestoresWheneverDumped(kd, ud) == kd.Dump # NoDump

\* useDump && len(keyData.Dump) > 0 (line 358).
UsesRestore(kd, ud) == ud /\ kd.Dump # NoDump

\* importKey (lines 357-370).
ImportKey(e, kd, ud) ==
    IF UsesRestore(kd, ud)
    THEN LET ttl == RestoreTTL(kd.TTL) IN
         {Outcome("", FALSE, RestoreReplaceCmd(e, ttl, kd.Dump),
                  <<Req("RESTORE", ttl, TRUE)>>),
          Outcome("write failed", FALSE, e, <<Req("RESTORE", ttl, FALSE)>>)}
    ELSE ImportValueByType(e, kd)

\* exportKeys (lines 109-221).
Next ==
    \/ Connect
    \/ \E m \in Masters : ScanNext(m)
    \/ \E m \in Masters : ScanEnd(m)
    \/ \E m \in Masters : ScanFail(m)
    \/ ScanAbort
    \/ CollectKeys
    \/ ExportKeyTTL
    \/ ExportKeyType
    \/ ExportKeyValue
    \/ WriteFile

Spec == Init /\ [][Next]_vars

\* ---------------------------------------------------------------- import
\* The snapshots exportKey can produce for key k, over every source entry and
\* both strategies.
CapturedSnapshots(k) ==
    UNION {UNION {{r.kd : r \in {x \in ValueReads(e,
                        [NewKeyData(k) EXCEPT !.TTL = TTLCmd(e), !.Type = TypeCmd(e)],
                        ud) : x.err = ""}} : e \in SrcEntries} : ud \in BOOLEAN}

JsonArray(elems) == [JsonNull EXCEPT !.jk = "array", !.arr = elems]

\* File records no export writes: a sorted set whose element is a string,
\* an object without "Score", an object whose "Score" is a string.
HandMade(k) ==
    {[key |-> k, type |-> "zset", ttl |-> NoExpiryReply, dump |-> Base64Encode(NoDump),
      value |-> JsonArray(<<x>>)] :
        x \in {[ek |-> "string", m |-> "a", sc |-> 0, scTy |-> "missing"],
               [ek |-> "object", m |-> "a", sc |-> 0, scTy |-> "missing"],
               [ek |-> "object", m |-> "a", sc |-> 1, scTy |-> "string"]}}

\* The records an import file may hold for key k.
FileRecords(k) == {MarshalKeyData(kd) : kd \in CapturedSnapshots(k)} \cup HandMade(k)

Garbage == [state |-> "garbage", entries |-> <<>>]

\* The files config.InputFile may name: none, one that is not a JSON list of
\* records, or a list of up to NumKeys records, the n-th for key n.
ImportFiles ==
    {NoFile, Garbage} \cup
    UNION {{[state |-> "json", entries |-> [j \in 1 .. n |-> [f[j] EXCEPT !.key = j]]] :
               f \in [1 .. n -> FileRecords(0)]} : n \in 0 .. NumKeys}

\* A key the target already holds, with an expiration.
OldEntry == [type |-> "list", ttl |-> SomeTTL, val |-> ListVal(<<"old">>)]

\* An import run: main with config.InputFile set (lines 50-57).
InitImport ==
    /\ useDump \in BOOLEAN
    /\ pattern = "*"
    /\ inputFile = DumpFileName
    /\ src = [k \in Keys |-> Absent]
    /\ tgt \in [Keys -> {Absent, OldEntry}]
    /\ file \in ImportFiles
    /\ phase = "open"
    /\ pass = 1
    /\ first = NoFirst
    /\ RunInit

\* os.Open returns an error (lines 290-293).
OpenFails(f) == f.state = "missing"

\* The mutation that does not look at the error of Decode.
DecodeErrorIgnored(f) == FALSE

\* Decode returns an error: the file is not a JSON list of records
\* (lines 297-299).
DecodeFails(f) == f.state = "garbage"

\* The mutation that does not look at the length of the decoded list.
EmptyListNotNoticed(list) == FALSE

\* len(keyDataList) == 0 (line 303).
NothingToImport(list) == Len(list) = 0

\* os.Open and Decode (lines 290-306): a fatal error, or the decoded list;
\* an empty list ends the run.
OpenFile ==
    /\ phase = "open"
    /\ IF OpenFails(file)
       THEN /\ result' = Failure("failed to open input file", "")
            /\ phase' = "done"
            /\ keyDataList' = keyDataList
       ELSE IF DecodeFails(file)
       THEN /\ result' = Failure("failed to parse JSON", "")
            /\ phase' = "done"
            /\ keyDataList' = keyDataList
       ELSE LET list == [j \in DOMAIN file.entries |->
                            UnmarshalKeyData(file.entries[j])] IN
            /\ keyDataList' = list
            /\ IF NothingToImport(list)
               THEN phase' = "done" /\ result' = Success
               ELSE phase' = "connectTarget" /\ result' = result
    /\ UNCHANGED <<confVars, scanVars, importVars, file, keys, i, step, keyData,
                   exported, failed, captureCalls, failedKeys>>

\* targetClient.Ping (lines 319-321).
ConnectTarget ==
    /\ phase = "connectTarget"
    /\ \E ok \in BOOLEAN :
         IF ok
         THEN phase' = "import" /\ result' = result
         ELSE phase' = "done" /\ result' = Failure("failed to connect", "")
    /\ UNCHANGED <<confVars, scanVars, loopVars, importVars, file>>

\* One iteration of the import loop (lines 334-346) and, past the last
\* record, the return (line 353). A panic ends the process.
ImportLoop ==
    /\ phase = "import"
    /\ LET kd == keyDataList[i] IN
       \E o \in ImportKey(tgt[kd.Key], kd, useDump) :
         /\ tgt' = [tgt EXCEPT ![kd.Key] = o.entry]
         /\ last' = [idx |-> i, err |-> o.err, panic |-> o.panic,
                     before |-> tgt[kd.Key], cmds |-> o.cmds]
         /\ IF o.panic
            THEN /\ phase' = "crashed"
                 /\ result' = [status |-> "panic", err |-> o.err, node |-> ""]
                 /\ UNCHANGED <<i, imported, failed, failedKeys>>
            ELSE /\ i' = i + 1
                 /\ IF o.err # ""
                    THEN /\ failed' = FailedAfterError(failed)
                         /\ failedKeys' = failedKeys \cup {i}
                         /\ imported' = imported
                    ELSE /\ imported' = imported + 1
                         /\ UNCHANGED <<failed, failedKeys>>
                 /\ IF i = Len(keyDataList)
                    THEN phase' = "done" /\ result' = Success
                    ELSE phase' = "import" /\ result' = result
    /\ UNCHANGED <<confVars, scanVars, file, keys, step, keyData, keyDataList,
                   exported, captureCalls, pass, first>>

\* The operator starts the import a second time with the same file and flags,
\* after a first run that returned nil and reported no failed key.
ImportAgain ==
    /\ phase = "done"
    /\ pass = 1
    /\ result = Success
    /\ failed = 0
    /\ pass' = 2
    /\ first' = [tgt |-> tgt, failed |-> failed]
    /\ phase' = "open"
    /\ result' = Running
    /\ keyDataList' = <<>>
    /\ i' = 1
    /\ imported' = 0
    /\ failed' = 0
    /\ failedKeys' = {}
    /\ last' = NoLast
    /\ UNCHANGED <<confVars, scanVars, file, tgt, keys, step, keyData, exported,
                   captureCalls>>

\* importKeys (lines 286-354), possibly run twice.
NextImport ==
    \/ OpenFile
    \/ ConnectTarget
    \/ ImportLoop
    \/ ImportAgain

SpecImport == InitImport /\ [][NextImport]_vars

\* ================================================================= claims
\* How often key k occurs in the slice keys.
Occurrences(k) == Cardinality({j \in DOMAIN keys : keys[j] = k})

\* The export loop has gone through the whole slice keys.
ExportLoopDone == Len(keys) > 0 /\ i > Len(keys)

\* C1: under every interleaving of the masters' scans, a key the scans yield
\* (once or several times, from one master or from several) is reported as new
\* by exactly one LoadOrStore call, occurs exactly once in the slice keys built
\* after discovery, and exportKey is called for it at most once, exactly once
\* when the export loop has finished.
C1_UniqueCapture ==
    \A k \in Keys :
        /\ addedCount[k] = (IF allKeys[k] > 0 THEN 1 ELSE 0)
        /\ captureCalls[k] <= 1
        /\ (phase \in {"export", "write"} \/ ExportLoopDone) =>
               Occurrences(k) = addedCount[k]
        /\ ExportLoopDone => captureCalls[k] = addedCount[k]

\* C1 witness: a finished export in which some scan yielded a key the map
\* already held, and every key of the slice was captured once.
C1_Witness ==
    /\ phase = "done"
    /\ result = Success
    /\ repeated
    /\ ExportLoopDone
    /\ \E k \in Keys : captureCalls[k] = 1

FailedScans == {m \in Masters : scanPc[m] = "failed"}

\* C2: once the scan of any master has failed, the run never captures a key
\* and never creates the export file, and when exportKeys has returned it has
\* returned the scan error, which names a master whose scan failed (the one
\* that failed, when it is the only one), however many other masters were
\* scanned to the end.
C2_ScanFailureAborts ==
    FailedScans # {} =>
        /\ phase \in {"scan", "done"}
        /\ \A k \in Keys : captureCalls[k] = 0
        /\ keyDataList = <<>>
        /\ file = NoFile
        /\ phase = "done" =>
             /\ result.status = "error"
             /\ result.err = "failed to scan cluster: scan error"
             /\ result.node \in FailedScans

\* C2 witness: exportKeys has returned after one master's scan failed while
\* another master's scan ended normally and had stored keys.
C2_Witness ==
    /\ phase = "done"
    /\ Cardinality(FailedScans) = 1
    /\ \E m \in Masters : scanPc[m] = "done"
    /\ \E k \in Keys : allKeys[k] > 0

\* The keys of the slice whose capture did not fail, in the slice's order.
Survivors == SelectSeq(keys, LAMBDA k : k \notin failedKeys)

\* C3: when the export loop has gone through a batch of N >= 1 keys of which
\* the set F failed capture, every one of the N keys was attempted, failed is
\* |F|, exported + failed is N, the list holds exactly the snapshots of the
\* keys outside F, and exportKeys returns nil with exactly that list written
\* to the file (or the error of os.Create, the only error left).
C3_PartialFailureIsolation ==
    ExportLoopDone =>
        /\ \A j \in DOMAIN keys : captureCalls[keys[j]] >= 1
        /\ failed = Cardinality(failedKeys)
        /\ exported + failed = Len(keys)
        /\ [j \in DOMAIN keyDataList |-> keyDataList[j].Key] = Survivors
        /\ phase = "done" =>
             \/ /\ result = Success
                /\ file.state = "json"
                /\ [j \in DOMAIN file.entries |-> file.entries[j].key] = Survivors
             \/ /\ result.err = "failed to create output file"
                /\ file = NoFile

\* C3 witness: a finished, successful export whose batch had a key that
\* failed capture and a key that did not.
C3_Witness ==
    /\ phase = "done"
    /\ result = Success
    /\ ExportLoopDone
    /\ failed >= 1
    /\ exported >= 1
    /\ Len(file.entries) = exported

\* C4 (as claimed): no snapshot is produced for a key whose type is outside
\* the supported set, under either strategy.
C4_UnsupportedTypeNeverCaptured ==
    \A j \in DOMAIN keyDataList : keyDataList[j].Type \in SupportedTypes

\* C5 (as claimed): the remaining-TTL field of every snapshot in the export
\* list, and of every record written to the file, is not negative.
C5_PersistedTTLNotNegative ==
    /\ \A j \in DOMAIN keyDataList : keyDataList[j].TTL >= 0
    /\ \A j \in DOMAIN file.entries : file.entries[j].ttl >= 0

\* C6: in every snapshot of an export run, and in every record written,
\* exactly one of Dump and Value is populated: Dump when the run's flag is
\* opaque (useDump), Value when it is decomposed.
C6_ExactlyOnePayload ==
    /\ \A j \in DOMAIN keyDataList :
         IF useDump
         THEN keyDataList[j].Dump # NoDump /\ keyDataList[j].Value = NilValue
         ELSE keyDataList[j].Dump = NoDump /\ keyDataList[j].Value # NilValue
    /\ \A j \in DOMAIN file.entries :
         IF useDump
         THEN file.entries[j].dump # Base64Encode(NoDump)
              /\ file.entries[j].value = JsonNull
         ELSE file.entries[j].dump = Base64Encode(NoDump)
              /\ file.entries[j].value # JsonNull

\* C6 witness: an export file holding two records, one of a string and one of
\* a key of another type.
C6_Witness ==
    /\ phase = "done"
    /\ Len(file.entries) >= 2
    /\ \E j \in DOMAIN file.entries : file.entries[j].type = "string"
    /\ \E j \in DOMAIN file.entries : file.entries[j].type # "string"

\* The snapshot handed to the latest importKey call.
LastKd == keyDataList[last.idx]

\* The latest importKey call returned nil.
LastRestored == last.idx > 0 /\ last.err = "" /\ ~last.panic

\* C7 (as claimed): when importKey returns nil for a snapshot of a supported
\* type captured with no expiration (TTL <= 0), the target key has no
\* expiration, whatever the target held for the key before, and no request
\* of the call asked for an expiration that is not positive.
C7_NoExpiryRestored ==
    (LastRestored /\ LastKd.TTL <= 0 /\ LastKd.Type \in SupportedTypes) =>
        /\ tgt[LastKd.Key].type # "none" => tgt[LastKd.Key].ttl = NoExpiryReply
        /\ \A j \in DOMAIN last.cmds :
             last.cmds[j].cmd = "EXPIRE" => last.cmds[j].ttl > 0

\* The file is one an export wrote, imported with the flag it was exported with.
StrategyMatched ==
    \A j \in DOMAIN keyDataList :
        /\ (keyDataList[j].Dump # NoDump) = useDump
        /\ keyDataList[j].Type \in SupportedTypes
        /\ \E c \in CapturedSnapshots(keyDataList[j].Key) :
             keyDataList[j] = UnmarshalKeyData(MarshalKeyData(c))

\* C8 (as claimed): after a second import of the same export file, with the
\* strategy it was exported with and no failed key in either run, every key of
\* the target has the type and the value it had after the first import.
C8_ImportIdempotent ==
    (/\ pass = 2
     /\ phase = "done"
     /\ result = Success
     /\ failed = 0
     /\ first.failed = 0
     /\ StrategyMatched) =>
        \A k \in Keys : tgt[k].type = first.tgt[k].type /\ tgt[k].val = first.tgt[k].val

\* The snapshot is one exportKey produces under the decomposed strategy, as
\* read back from the file.
DecomposedCapture(kd) ==
    /\ kd.Dump = NoDump
    /\ \E c \in CapturedSnapshots(kd.Key) : kd = UnmarshalKeyData(MarshalKeyData(c))

Members(arr) == {arr[j].m : j \in DOMAIN arr}

Pairs(arr) == [j \in DOMAIN arr |-> <<arr[j].m, arr[j].sc>>]

\* The target entry e holds the content of the snapshot's decomposed value.
SameContent(e, kd) ==
    CASE kd.Type = "string" -> e.val = StrVal(kd.Value.str)
      [] kd.Type = "list" ->
           e.val = ListVal([j \in DOMAIN kd.Value.arr |-> kd.Value.arr[j].m])
      [] kd.Type = "set" -> e.val = SetVal(Members(kd.Value.arr))
      [] kd.Type = "hash" -> e.val = HashVal(kd.Value.obj)
      [] kd.Type = "zset" ->
           /\ e.val = ZSetVal(Range(Pairs(kd.Value.arr)))
           /\ Pairs(ZRangeWithScores(e.val.zset)) = Pairs(kd.Value.arr)
      [] OTHER -> FALSE

C10_RestoreFailureIsolation ==
    last.idx > 0 =>
        /\ ~last.panic
        /\ phase \in {"import", "done"}
        /\ failed = Cardinality(failedKeys)
        /\ imported + failed = i - 1
        /\ phase = "done" => result = Success /\ i = Len(keyDataList) + 1

\* The snapshot is a decomposed sorted set one of whose stored elements is not
\* a mapping with a floating-point "Score".
MalformedZSet(kd) ==
    /\ kd.Type = "zset"
    /\ kd.Value.gk = "[]interface{}"
    /\ \E j \in DOMAIN kd.Value.arr :
         kd.Value.arr[j].ek # "map" \/ kd.Value.arr[j].scTy # "float64"

\* C11 (as claimed): the type-dispatched restore of a sorted-set snapshot with
\* a malformed element returns an error without a panic, the record is
\* counted as one failure and the loop goes on: the run is never aborted.
C11_MalformedZSetIsRestoreError ==
    (last.idx > 0 /\ (~useDump \/ LastKd.Dump = NoDump) /\ MalformedZSet(LastKd)) =>
        /\ ~last.panic
        /\ last.err # ""
        /\ last.idx \in failedKeys
        /\ phase \in {"import", "done"}

\* The input file cannot be opened, or is not a JSON list of records.
Unreadable == file.state \in {"missing", "garbage"}

\* C12: with an input file that cannot be opened or parsed, importKeys
\* returns a fatal error; the run never reaches the connection to the target,
\* importKey is never called, no request is sent and no step of the run
\* changes the target keyspace.
C12_UnreadableFileFatalBeforeTarget ==
    /\ [](Unreadable =>
            /\ phase \in {"open", "done"}
            /\ last = NoLast
            /\ imported = 0 /\ failed = 0
            /\ phase = "done" =>
                 /\ result.status = "error"
                 /\ result.err \in {"failed to open input file", "failed to parse JSON"})
    /\ [][Unreadable => tgt' = tgt]_vars

\* C12 witness: the run over a file that is not a snapshot list has ended with
\* the fatal error, and the target holds a key.
C12_Witness ==
    /\ file.state = "garbage"
    /\ phase = "done"
    /\ result = Failure("failed to parse JSON", "")
    /\ \E k \in Keys : tgt[k] = OldEntry

\* Every master's scan ended without error and no key was stored in the map.
NothingDiscovered ==
    /\ \A m \in Masters : scanPc[m] = "done"
    /\ \A k \in Keys : allKeys[k] = 0

\* C13 (as claimed): an export run whose discovery found no key matching the
\* pattern ends without error, and the output file then exists and holds a
\* well-formed list of zero records.
C13_EmptyExportWritesFile ==
    (phase = "done" /\ NothingDiscovered) =>
        /\ result = Success
        /\ file = JsonFile(<<>>)

\* The input file is a well-formed list of zero records.
ZeroEntryFile == file.state = "json" /\ Len(file.entries) = 0

\* C14: importing a zero-entry file ends without error straight after the
\* file was read: the target is never connected to, importKey is never
\* called, no request is sent and no step of the run changes the target
\* keyspace.
C14_EmptyImportIsNoOp ==
    /\ [](ZeroEntryFile =>
            /\ phase \in {"open", "done"}
            /\ last = NoLast
            /\ imported = 0 /\ failed = 0
            /\ phase = "done" => result = Success)
    /\ [][ZeroEntryFile => tgt' = tgt]_vars

\* C14 witness: the import of a zero-entry file has ended, with keys present
\* on the target.
C14_Witness ==
    /\ ZeroEntryFile
    /\ phase = "done"
    /\ result = Success
    /\ keyDataList = <<>>
    /\ \A k \in Keys : tgt[k] = OldEntry

\* ------------------------------------------------- export, then import
\* The operator starts the tool again with the file the export wrote as its
\* input file and the same strategy flag, after an export that returned nil
\* and reported no failed key (main, lines 50-57). The target is the empty
\* cluster the export run left untouched.
ImportExported ==
    /\ phase = "done"
    /\ pass = 1
    /\ result = Success
    /\ failed = 0
    /\ pass' = 2
    /\ first' = [tgt |-> tgt, failed |-> failed]
    /\ phase' = "open"
    /\ result' = Running
    /\ keyDataList' = <<>>
    /\ i' = 1
    /\ imported' = 0
    /\ failed' = 0
    /\ failedKeys' = {}
    /\ last' = NoLast
    /\ inputFile' = DumpFileName
    /\ UNCHANGED <<useDump, pattern, src, scanVars, file, tgt, keys, step, keyData,
                   exported, captureCalls>>

\* exportKeys (lines 109-221) followed by importKeys (lines 286-354).
NextEndToEnd ==
    \/ Next
    \/ ImportExported
    \/ OpenFile
    \/ ConnectTarget
    \/ ImportLoop

SpecEndToEnd == Init /\ [][NextEndToEnd]_vars

\* Both runs ended with nil and neither reported a failed key.
EndToEndDone ==
    /\ pass = 2
    /\ phase = "done"
    /\ result = Success
    /\ failed = 0
    /\ first.failed = 0

\* C15 (as claimed): after an export and the import of its file into an empty
\* target, with no failure in either run, the target holds exactly the source
\* keys that match the pattern, each with the type and the content it has on
\* the source, and no other key.
C15_EndToEndFaithful ==
    EndToEndDone =>
        \A k \in Keys :
            IF Exists(k) /\ Match(pattern, k)
            THEN tgt[k].type = src[k].type /\ tgt[k].val = src[k].val
            ELSE tgt[k] = Absent

\* The keys of the source that match the pattern, all of them or those in
\* the slots of master m.
Matching == {k \in Keys : Exists(k) /\ Match(pattern, k)}

MatchingOn(m) == {k \in Matching : Owner(k) = m}

\* C16: a master's scan task ends without error only when its iterator has
\* yielded every matching key of the node; exportKey is first called only
\* after every master's scan task has returned; and when the export loop runs,
\* every scan has succeeded and the key list holds exactly the keys the scans
\* yielded, which are all the matching keys of all masters.
C16_CaptureAfterCompleteDiscovery ==
    /\ \A m \in Masters :
         (phase = "scan" /\ scanPc[m] = "done") => MatchingOn(m) \subseteq seen[m]
    /\ (phase \in {"export", "write"} \/ \E k \in Keys : captureCalls[k] > 0) =>
         /\ \A m \in Masters : scanPc[m] = "done"
         /\ errCh = ""
         /\ Range(keys) = {k \in Keys : addedCount[k] > 0}
         /\ Range(keys) = Matching

\* C16 witness: the first exportKey call has been made in a run where both
\* masters' scans yielded a key and one of them yielded a key again.
C16_Witness ==
    /\ phase = "export"
    /\ \E k \in Keys : captureCalls[k] > 0
    /\ \A m \in Masters : MatchingOn(m) # {}
    /\ Len(keys) = NumKeys
    /\ repeated

\* The latest importKey call took the type-dispatched path for a list or set
\* snapshot with a positive TTL, and its last element write failed.
ElementWriteFailed ==
    /\ last.idx > 0
    /\ ~useDump \/ LastKd.Dump = NoDump
    /\ LastKd.Type \in {"list", "set"}
    /\ LastKd.TTL > 0
    /\ LastKd.Value.gk = "[]interface{}"
    /\ Len(last.cmds) > 0
    /\ last.cmds[Len(last.cmds)].cmd \in {"RPUSH", "SADD"}
    /\ ~last.cmds[Len(last.cmds)].ok

\* The elements the requests before the failed one wrote.
WrittenBefore == [j \in 1 .. Len(last.cmds) - 1 |-> LastKd.Value.arr[j].m]

C18_ExpirationApplied ==
    (LastRestored /\ LastKd.TTL > 0) =>
        /\ tgt[LastKd.Key].ttl = LastKd.TTL
        /\ \A j \in DOMAIN last.cmds : last.cmds[j].ok

\* The requests the type-dispatched reconstruction of a snapshot of type t
\* may send.
DispatchedCmds(t) ==
    CASE t = "string" -> {"SET"}
      [] t = "list" -> {"RPUSH", "EXPIRE"}
      [] t = "set" -> {"SADD", "EXPIRE"}
      [] t = "hash" -> {"HSET", "EXPIRE"}
      [] t = "zset" -> {"ZADD", "EXPIRE"}
      [] OTHER -> {}

\* C19: importKey sends one RESTORE ... REPLACE and nothing else exactly when
\* the run's flag is opaque and the snapshot carries a payload; in every
\* other case it sends only the requests of the snapshot's type. A snapshot
\* of a supported type that carries a payload and no decomposed value,
\* imported with the decomposed flag, gives an error that is counted as a
\* failure, without a panic and without any request to the target.
C19_RestoreStrategyDispatch ==
    last.idx > 0 =>
        /\ IF useDump /\ LastKd.Dump # NoDump
           THEN Len(last.cmds) = 1 /\ last.cmds[1].cmd = "RESTORE"
           ELSE \A j \in DOMAIN last.cmds :
                    last.cmds[j].cmd \in DispatchedCmds(LastKd.Type)
        /\ (/\ ~useDump
            /\ LastKd.Dump # NoDump
            /\ LastKd.Value = NilValue
            /\ LastKd.Type \in SupportedTypes) =>
               /\ last.err # ""
               /\ ~last.panic
               /\ last.cmds = <<>>
               /\ tgt[LastKd.Key] = last.before
               /\ last.idx \in failedKeys

\* C19 witness: a sorted-set snapshot exported under the opaque strategy was
\* handed to importKey with the decomposed flag; the call returned an error
\* and sent nothing.
C19_Witness ==
    /\ last.idx > 0
    /\ ~useDump
    /\ LastKd.Dump # NoDump
    /\ LastKd.Dump.type = "zset"
    /\ LastKd.Type = "zset"
    /\ LastKd.Value = NilValue
    /\ last.err = "invalid zset value"
    /\ last.cmds = <<>>
    /\ failed > 0

\* ------------------------------------------- export from a live source
\* Another client of the source cluster deletes, overwrites, retypes or
\* re-expires the key exportKey is reading, between two of its three reads
\* (lines 230, 237 and 245 / 252 are separate requests).
OtherClient ==
    /\ phase = "export"
    /\ step \in {"type", "value"}
    /\ \E e \in (SrcEntries \cup {Absent}) \ {src[keys[i]]} :
         src' = [src EXCEPT ![keys[i]] = e]
    /\ UNCHANGED <<useDump, pattern, inputFile, scanVars, loopVars, importVars,
                   file, phase, result>>

\* exportKeys (lines 109-221) against a source that other clients write to.
NextRace ==
    \/ Next
    \/ OtherClient

SpecRace == Init /\ [][NextRace]_vars

\* The Go type exportValueByType returns for a key of type t.
ValueKind(t) ==
    CASE t = "string" -> "string"
      [] t \in {"list", "set"} -> "[]string"
      [] t = "zset" -> "[]Z"
      [] t = "hash" -> "map[string]string"
      [] OTHER -> "nil"

\* C20 (as claimed): the export list holds only snapshots whose three reads
\* all succeeded, and the type tag of each is the type of what it carries:
\* the type of the dumped key for an opaque payload, the matching shape for a
\* decomposed value; also when another client changes the key between the
\* reads.
C20_SnapshotOneState ==
    /\ Len(keyDataList) = exported
    /\ \A j \in DOMAIN keyDataList :
         LET kd == keyDataList[j] IN
         /\ kd.Key \notin failedKeys
         /\ kd.Type # ""
         /\ kd.Dump # NoDump \/ kd.Value # NilValue
         /\ kd.Dump # NoDump => kd.Dump.type = kd.Type
         /\ kd.Value # NilValue => kd.Value.gk = ValueKind(kd.Type)

\* ------------------------------------------------------ main: the mode
\* The mutation that takes the two branches of main the other way round.
ExportModeFlipped(name) == name # NoInput

\* config.InputFile == "" (line 43).
ExportMode(name) == name = NoInput

\* A cluster in which every key holds the entry e.
ClusterHolding(e) == [k \in Keys |-> e]

\* The tool is started with or without -input. Without it there is no export
\* file yet; with it the file is any input file. The cluster the run has no
\* business with holds keys.
InitMain ==
    /\ useDump \in BOOLEAN
    /\ pattern \in Patterns
    /\ inputFile \in {NoInput, DumpFileName}
    /\ IF inputFile = NoInput
       THEN /\ src \in [Keys -> SrcEntries \cup {Absent}]
            /\ tgt = ClusterHolding(OldEntry)
            /\ file = NoFile
       ELSE /\ src = ClusterHolding(OldEntry)
            /\ tgt \in [Keys -> {Absent, OldEntry}]
            /\ file \in ImportFiles
    /\ phase = "main"
    /\ pass = 1
    /\ first = NoFirst
    /\ RunInit

\* main (lines 40-58): export mode when no input file is named, import mode
\* otherwise.
Main ==
    /\ phase = "main"
    /\ phase' = IF ExportMode(inputFile) THEN "connect" ELSE "open"
    /\ UNCHANGED <<confVars, scanVars, loopVars, importVars, file, result>>

NextMain ==
    \/ Main
    \/ Next
    \/ OpenFile
    \/ ConnectTarget
    \/ ImportLoop

SpecMain == InitMain /\ [][NextMain]_vars

\* The phases of exportKeys, in which requests go to the source cluster, and
\* those of importKeys, in which requests go to the target cluster.
ExportPhases == {"connect", "scan", "export", "write"}

ImportPhases == {"open", "connectTarget", "import", "crashed"}

\* No step of discovery or capture was taken.
SourceUntouched ==
    /\ \A m \in Masters : scanPc[m] = "scanning" /\ nodeKeyCount[m] = 0
    /\ \A k \in Keys : allKeys[k] = 0 /\ captureCalls[k] = 0
    /\ exported = 0
    /\ keys = <<>>

\* C21: the run is an export exactly when no input file is named and an
\* import exactly when one is. An export run never enters a step that
\* connects or writes to the target, and no step of it changes the source or
\* the target keyspace (its requests to the source are reads); an import run
\* never enters a step that connects to, scans or reads the source, and no
\* step of it changes the source keyspace.
C21_ModeSelectsOneCluster ==
    /\ [](/\ phase \in ExportPhases => inputFile = NoInput
          /\ phase \in ImportPhases => inputFile # NoInput
          /\ inputFile = NoInput => last = NoLast /\ imported = 0
          /\ inputFile # NoInput => SourceUntouched /\ errCh = "")
    /\ [][/\ src' = src
          /\ inputFile' = inputFile
          /\ inputFile = NoInput => tgt' = tgt]_vars

\* C21 witness: an export run over a source that holds keys has written its
\* file while the target held keys of its own.
C21_Witness ==
    /\ inputFile = NoInput
    /\ phase = "done"
    /\ result = Success
    /\ exported > 0
    /\ file.state = "json"
    /\ tgt = ClusterHolding(OldEntry)

====
